---- MODULE Spec2Model ----
(***************************************************************************)
(* Model of the image conversion engine of app/src/lib: the pure helpers   *)
(* of utils.ts (normalizeTargetMime, estimateBase64SizeBytes,              *)
(* computeResize, isSvgMime) and the asynchronous pipeline                 *)
(* convertFileToBase64 of convert.ts.                                      *)
(*                                                                         *)
(* Conventions.                                                            *)
(*  - A JavaScript string that the code inspects character by character    *)
(*    (mime types, data URLs) is a sequence of one-character strings.      *)
(*  - An optional value (undefined or a value v) is <<>> or <<v>>.         *)
(*  - A quality is an integer number of hundredths (0.92 is 92).           *)
(*  - Rational arithmetic is exact: a quotient is kept as numerator and    *)
(*    denominator and Math.round(a/b) is RoundDiv(a, b).                   *)
(***************************************************************************)
EXTENDS Integers, Sequences, FiniteSets, TLC

(***************************************************************************)
(* Bounds of the model.                                                    *)
(***************************************************************************)
\* largest source width and height fed to computeResize
MaxDim == 7
\* largest maxWidth and maxHeight fed to computeResize
MaxBound == 7
\* longest byte sequence whose base64 encoding is fed to the estimator
MaxBytes == 4

(***************************************************************************)
(* Optional values.                                                        *)
(***************************************************************************)
Undefined == <<>>

Some(v) == <<v>>

IsDefined(o) == o # <<>>

\* the JavaScript expression  o ?? d
OrElse(o, d) == IF o = <<>> THEN d ELSE o[1]

Optional(S) == {Undefined} \cup {Some(v) : v \in S}

(***************************************************************************)
(* JavaScript string primitives on sequences of characters.                *)
(***************************************************************************)
\* s.indexOf(ch): the 0-based index of the first occurrence, or -1
IndexOf(s, ch) ==
  IF \E i \in 1..Len(s) : s[i] = ch
  THEN (CHOOSE i \in 1..Len(s) : s[i] = ch /\ \A j \in 1..(i - 1) : s[j] # ch) - 1
  ELSE -1

\* s.slice(from, to) for 0 <= from, to
Slice(s, from, to) == SubSeq(s, from + 1, IF to > Len(s) THEN Len(s) ELSE to)

\* s.slice(from)
SliceFrom(s, from) == SubSeq(s, from + 1, Len(s))

StartsWith(s, p) == Len(s) >= Len(p) /\ SubSeq(s, 1, Len(p)) = p

EndsWith(s, p) == Len(s) >= Len(p) /\ SubSeq(s, Len(s) - Len(p) + 1, Len(s)) = p

(***************************************************************************)
(* The string literals of the code.                                        *)
(***************************************************************************)
IMAGE_ == <<"i", "m", "a", "g", "e", "/">>

IMAGE_PNG == IMAGE_ \o <<"p", "n", "g">>

IMAGE_JPEG == IMAGE_ \o <<"j", "p", "e", "g">>

IMAGE_WEBP == IMAGE_ \o <<"w", "e", "b", "p">>

IMAGE_SVG_XML == IMAGE_ \o <<"s", "v", "g", "+", "x", "m", "l">>

IMAGE_SVG == IMAGE_ \o <<"s", "v", "g">>

IMAGE_GIF == IMAGE_ \o <<"g", "i", "f">>

OCTET_STREAM ==
  <<"a", "p", "p", "l", "i", "c", "a", "t", "i", "o", "n", "/",
    "o", "c", "t", "e", "t", "-", "s", "t", "r", "e", "a", "m">>

EMPTY == <<>>

DATA_ == <<"d", "a", "t", "a", ":">>

BASE64_ == <<";", "b", "a", "s", "e", "6", "4", ",">>

(***************************************************************************)
(* utils.ts                                                                *)
(***************************************************************************)
\* originalMime || 'application/octet-stream'
MimeOrOctet(originalMime) == IF originalMime = EMPTY THEN OCTET_STREAM ELSE originalMime

\* !target, for an optional string
IsFalsy(target) == target = Undefined \/ target = Some("")

normalizeTargetMime(originalMime, target) ==
  IF IsFalsy(target) \/ target = Some("original") \/ target = Some("base64")
  THEN MimeOrOctet(originalMime)
  ELSE CASE target = Some("png") -> IMAGE_PNG
         [] target = Some("jpeg") -> IMAGE_JPEG
         [] target = Some("webp") -> IMAGE_WEBP
         [] target = Some("svg") -> IMAGE_SVG_XML
         [] OTHER -> MimeOrOctet(originalMime)

\* a variant that tests the single pad first
PaddingOfSingleFirst(base64) ==
  IF EndsWith(base64, <<"=">>) THEN 1
  ELSE IF EndsWith(base64, <<"=", "=">>) THEN 2 ELSE 0

\* (base64.endsWith('==') ? 2 : base64.endsWith('=') ? 1 : 0)
PaddingOf(base64) ==
  IF EndsWith(base64, <<"=", "=">>) THEN 2
  ELSE IF EndsWith(base64, <<"=">>) THEN 1 ELSE 0

\* a variant that does not strip the header
estimateBase64SizeBytesWhole(dataUrl) ==
  ((Len(dataUrl) * 3) \div 4) - PaddingOf(dataUrl)

estimateBase64SizeBytes(dataUrl) ==
  LET commaIndex == IndexOf(dataUrl, ",")
      base64 == IF commaIndex >= 0 THEN SliceFrom(dataUrl, commaIndex + 1) ELSE dataUrl
      padding == PaddingOf(base64)
  IN  ((Len(base64) * 3) \div 4) - padding

\* a variant that rounds down, as Math.floor does
RoundDivDown(a, b) == a \div b

\* Math.round(a / b) for b > 0: the nearest integer, a tie going up
RoundDiv(a, b) == (2 * a + b) \div (2 * b)

\* Math.min(a, b) of two quotients <<numerator, denominator>>, denominators > 0
MinQ(a, b) == IF a[1] * b[2] <= b[1] * a[2] THEN a ELSE b

\* a variant without the ceiling of 1
ContainScaleUncapped(srcWidth, srcHeight, targetMaxWidth, targetMaxHeight) ==
  MinQ(<<targetMaxWidth, srcWidth>>, <<targetMaxHeight, srcHeight>>)

\* Math.min(targetMaxWidth / srcWidth, targetMaxHeight / srcHeight, 1)
ContainScale(srcWidth, srcHeight, targetMaxWidth, targetMaxHeight) ==
  MinQ(MinQ(<<targetMaxWidth, srcWidth>>, <<targetMaxHeight, srcHeight>>), <<1, 1>>)

\* a variant with the comparison of the aspects turned around
SourceIsWiderFlipped(srcWidth, srcHeight, targetMaxWidth, targetMaxHeight) ==
  srcWidth * targetMaxHeight < targetMaxWidth * srcHeight

\* sourceAspect > targetAspect, that is srcWidth / srcHeight > targetMaxWidth /
\* targetMaxHeight, cross-multiplied (all four are positive)
SourceIsWider(srcWidth, srcHeight, targetMaxWidth, targetMaxHeight) ==
  srcWidth * targetMaxHeight > targetMaxWidth * srcHeight

computeResize(srcWidth, srcHeight, maxWidth, maxHeight, fit) ==
  LET targetMaxWidth == OrElse(maxWidth, srcWidth)
      targetMaxHeight == OrElse(maxHeight, srcHeight)
  IN  IF fit = "contain"
      THEN LET scale == ContainScale(srcWidth, srcHeight, targetMaxWidth, targetMaxHeight)
           IN  [width |-> RoundDiv(srcWidth * scale[1], scale[2]),
                height |-> RoundDiv(srcHeight * scale[1], scale[2]),
                sx |-> 0, sy |-> 0, sWidth |-> srcWidth, sHeight |-> srcHeight]
      ELSE \* cover
           LET wider == SourceIsWider(srcWidth, srcHeight, targetMaxWidth, targetMaxHeight)
               sWidth == IF wider THEN RoundDiv(srcHeight * targetMaxWidth, targetMaxHeight)
                                  ELSE srcWidth
               sHeight == IF wider THEN srcHeight
                                   ELSE RoundDiv(srcWidth * targetMaxHeight, targetMaxWidth)
           IN  [width |-> targetMaxWidth, height |-> targetMaxHeight,
                sx |-> (srcWidth - sWidth) \div 2, sy |-> (srcHeight - sHeight) \div 2,
                sWidth |-> sWidth, sHeight |-> sHeight]

\* a variant that forgets the 'image/svg' spelling
isSvgMimeXmlOnly(mime) == mime = IMAGE_SVG_XML

isSvgMime(mime) == mime = IMAGE_SVG_XML \/ mime = IMAGE_SVG

(***************************************************************************)
(* Base64, as FileReader.readAsDataURL and the canvas serialisers apply    *)
(* it: three bytes make four characters of the alphabet, a final group of  *)
(* one or two bytes is padded with '='.                                    *)
(***************************************************************************)
B64Alphabet ==
  <<"A", "B", "C", "D", "E", "F", "G", "H", "I", "J", "K", "L", "M",
    "N", "O", "P", "Q", "R", "S", "T", "U", "V", "W", "X", "Y", "Z",
    "a", "b", "c", "d", "e", "f", "g", "h", "i", "j", "k", "l", "m",
    "n", "o", "p", "q", "r", "s", "t", "u", "v", "w", "x", "y", "z",
    "0", "1", "2", "3", "4", "5", "6", "7", "8", "9", "+", "/">>

B64Char(n) == B64Alphabet[n + 1]

B64Index(ch) == (CHOOSE i \in 1..64 : B64Alphabet[i] = ch) - 1

RECURSIVE B64Encode(_)
B64Encode(bytes) ==
  IF Len(bytes) = 0 THEN <<>>
  ELSE IF Len(bytes) = 1
  THEN LET n == bytes[1] * 65536
       IN  <<B64Char(n \div 262144), B64Char((n \div 4096) % 64), "=", "=">>
  ELSE IF Len(bytes) = 2
  THEN LET n == bytes[1] * 65536 + bytes[2] * 256
       IN  <<B64Char(n \div 262144), B64Char((n \div 4096) % 64),
             B64Char((n \div 64) % 64), "=">>
  ELSE LET n == bytes[1] * 65536 + bytes[2] * 256 + bytes[3]
       IN  <<B64Char(n \div 262144), B64Char((n \div 4096) % 64),
             B64Char((n \div 64) % 64), B64Char(n % 64)>>
           \o B64Encode(SubSeq(bytes, 4, Len(bytes)))

\* the bytes a padded base64 text stands for (the inverse of B64Encode)
RECURSIVE B64Decode(_)
B64Decode(chars) ==
  IF Len(chars) < 4 THEN <<>>
  ELSE LET i1 == B64Index(chars[1])
           i2 == B64Index(chars[2])
           rest == B64Decode(SubSeq(chars, 5, Len(chars)))
       IN  IF chars[3] = "="
           THEN <<(i1 * 4 + i2 \div 16) % 256>>
           ELSE IF chars[4] = "="
           THEN LET i3 == B64Index(chars[3])
                IN  <<(i1 * 4 + i2 \div 16) % 256, ((i2 % 16) * 16 + i3 \div 4) % 256>>
           ELSE LET i3 == B64Index(chars[3])
                    i4 == B64Index(chars[4])
                IN  <<(i1 * 4 + i2 \div 16) % 256, ((i2 % 16) * 16 + i3 \div 4) % 256,
                      ((i3 % 4) * 64 + i4) % 256>> \o rest

\* the text FileReader.readAsDataURL yields for a blob of that type and content
readFileAsDataURL(type, bytes) == DATA_ \o type \o BASE64_ \o B64Encode(bytes)

\* the part of a data URL after its first ','
PayloadOf(dataUrl) == SliceFrom(dataUrl, IndexOf(dataUrl, ",") + 1)

(***************************************************************************)
(* convert.ts: the helpers of the pipeline.                                *)
(***************************************************************************)
\* the quality handed to the encoder when options.quality is no number (0.92)
DefaultQuality == 92

\* a variant that composites onto black
DefaultBackgroundBlack == "#000000"

DefaultBackground == "#ffffff"

extractMimeFromDataUrl(dataUrl) ==
  LET semi == IndexOf(dataUrl, ";")
  IN  IF StartsWith(dataUrl, DATA_) /\ semi > 5 THEN Slice(dataUrl, 5, semi)
      ELSE OCTET_STREAM

\* a variant that hands the requested type to the encoder as it is
clampCanvasMimeNone(requested) == requested

clampCanvasMime(requested) ==
  IF requested = IMAGE_JPEG \/ requested = IMAGE_WEBP THEN requested ELSE IMAGE_PNG

\* a variant that takes the DOM for granted
isDomAvailableAlways(e) == TRUE

\* e is the environment of a call: e.dom says that document.createElement exists
isDomAvailable(e) == e.dom

\* the branch createCanvas takes: an OffscreenCanvas, a DOM canvas, or the
\* TypeError of reading document.createElement where there is no document
createCanvas(e, width, height) ==
  IF e.offscreen /\ ~isDomAvailable(e)
  THEN Some([kind |-> "offscreen", width |-> width, height |-> height,
             fill |-> Undefined, drawn |-> Undefined])
  ELSE IF e.dom
  THEN Some([kind |-> "dom", width |-> width, height |-> height,
             fill |-> Undefined, drawn |-> Undefined])
  ELSE Undefined

\* const originalMime = file.type || 'application/octet-stream'
OriginalMime(f) == MimeOrOctet(f.type)

TargetMimeRequested(f, o) == normalizeTargetMime(OriginalMime(f), o.targetFormat)

\* the condition of the SVG passthrough exit
IsSvgPassthrough(f, o) ==
  /\ isSvgMime(OriginalMime(f))
  /\ \/ o.targetFormat = Some("svg")
     \/ o.targetFormat = Some("original")
     \/ o.targetFormat = Some("base64")
     \/ IsFalsy(o.targetFormat)

\* Boolean(options.resize) || (targetMimeRequested === 'image/jpeg')
NeedsCanvas(f, o) == IsDefined(o.resize) \/ TargetMimeRequested(f, o) = IMAGE_JPEG

\* a variant that forgets the 'base64' target
IsRawPassthroughNoBase64(f, o) ==
  /\ \/ o.targetFormat = Some("original")
     \/ (IsFalsy(o.targetFormat) /\ StartsWith(OriginalMime(f), IMAGE_))
  /\ ~NeedsCanvas(f, o)

\* the condition of the raw passthrough exit
IsRawPassthrough(f, o) ==
  /\ \/ o.targetFormat = Some("original")
     \/ o.targetFormat = Some("base64")
     \/ (IsFalsy(o.targetFormat) /\ StartsWith(OriginalMime(f), IMAGE_))
  /\ ~NeedsCanvas(f, o)

\* the result of both passthrough exits
PassthroughResult(f) ==
  LET dataUrl == readFileAsDataURL(f.type, f.bytes)
  IN  [dataUrl |-> dataUrl, mime |-> extractMimeFromDataUrl(dataUrl),
       sizeBytes |-> estimateBase64SizeBytes(dataUrl), fileName |-> f.name]

\* typeof options.quality === 'number' ? options.quality : 0.92
QualityOf(o) == IF IsDefined(o.quality) THEN o.quality[1] ELSE DefaultQuality

\* options.resize?.fit ?? 'contain', options.resize?.maxWidth, options.resize?.maxHeight
FitOf(o) == IF IsDefined(o.resize) THEN OrElse(o.resize[1].fit, "contain") ELSE "contain"

MaxWidthOf(o) == IF IsDefined(o.resize) THEN o.resize[1].maxWidth ELSE Undefined

MaxHeightOf(o) == IF IsDefined(o.resize) THEN o.resize[1].maxHeight ELSE Undefined

\* the geometry the render path computes from the decoded bitmap
GeometryOf(o, bm) == computeResize(bm.width, bm.height, MaxWidthOf(o), MaxHeightOf(o), FitOf(o))

\* what the platform encoder writes for a surface: an abstraction of the pixels
\* that depends on everything the code hands to the surface and the encoder
EncodeSurface(cv, type, quality) ==
  <<cv.width % 256, cv.height % 256, quality % 256>>
    \o (IF IsDefined(cv.fill) THEN <<255>> ELSE <<>>)

\* the synchronous stretch from the decoded bitmap to the call of
\* canvasToDataURL: geometry, surface, optional background, draw, encoder call
RenderStep(f, o, e, bm) ==
  LET g == GeometryOf(o, bm)
      made == createCanvas(e, g.width, g.height)
      requestedCanvasMime == clampCanvasMime(TargetMimeRequested(f, o))
      shouldCompositeBackground == requestedCanvasMime = IMAGE_JPEG
      quality == QualityOf(o)
  IN  IF made = Undefined
      THEN [ok |-> FALSE, canvas |-> Undefined, encodeArgs |-> Undefined,
            events |-> <<"computeResize">>]
      ELSE [ok |-> TRUE,
            canvas |-> Some([made[1] EXCEPT
                        !.fill = IF shouldCompositeBackground
                                 THEN Some(OrElse(o.background, DefaultBackground))
                                 ELSE Undefined,
                        !.drawn = Some([sx |-> g.sx, sy |-> g.sy,
                                        sWidth |-> g.sWidth, sHeight |-> g.sHeight])]),
            encodeArgs |-> Some([type |-> requestedCanvasMime, quality |-> quality]),
            events |-> <<"computeResize", "createCanvas">>
                         \o (IF shouldCompositeBackground THEN <<"fillRect">> ELSE <<>>)
                         \o <<"drawImage", "encode">>]

\* canvasToDataURL: the data URL the surface serialises to, or no URL when the
\* serialisation fails. A surface without pixels serialises to "data:," on a
\* DOM canvas and is refused by OffscreenCanvas.convertToBlob.
canvasToDataURL(e, cv, args) ==
  IF ~e.encodeOk THEN Undefined
  ELSE IF cv.width = 0 \/ cv.height = 0
  THEN (IF cv.kind = "dom" THEN Some(DATA_ \o <<",">>) ELSE Undefined)
  ELSE Some(readFileAsDataURL(args.type, EncodeSurface(cv, args.type, args.quality)))

\* a variant that reports the dimensions the wrong way round
RenderResultSwapped(f, cv, dataUrl) ==
  [dataUrl |-> dataUrl, mime |-> extractMimeFromDataUrl(dataUrl),
   sizeBytes |-> estimateBase64SizeBytes(dataUrl),
   width |-> cv.height, height |-> cv.width, fileName |-> f.name]

\* the result of the full-render exit
RenderResult(f, cv, dataUrl) ==
  [dataUrl |-> dataUrl, mime |-> extractMimeFromDataUrl(dataUrl),
   sizeBytes |-> estimateBase64SizeBytes(dataUrl),
   width |-> cv.width, height |-> cv.height, fileName |-> f.name]

(***************************************************************************)
(* The state.                                                              *)
(***************************************************************************)
VARIABLES
  pc,          \* per call: the suspension point it waits at, or done / failed
  file,        \* per call: the File argument
  options,     \* per call: the ConvertOptions argument
  env,         \* per call: the capabilities and outcomes of the host
  bitmap,      \* per call: the local variable bitmap
  canvas,      \* per call: the surface created by createCanvas
  encodeArgs,  \* per call: the arguments of canvasToDataURL
  result,      \* per call: the ConvertResult the promise resolved with
  error,       \* per call: the error the promise rejected with
  trace,       \* per call: the platform operations performed, in order
  objectUrls,  \* the object URLs alive in the URL store, named by their call
  overlap,     \* history: some call took a step while another was in flight
  rzArgs,      \* the arguments of a call of computeResize
  rzOut,       \* its return value
  estBytes,    \* a byte sequence
  estUrl,      \* the text handed to estimateBase64SizeBytes
  estOut       \* its return value

callVars == <<pc, file, options, env, bitmap, canvas, encodeArgs, result, error,
              trace, objectUrls, overlap>>

resizeVars == <<rzArgs, rzOut>>

estimateVars == <<estBytes, estUrl, estOut>>

vars == <<callVars, resizeVars, estimateVars>>

(***************************************************************************)
(* The inputs of the pipeline.                                             *)
(***************************************************************************)
\* how many calls of convertFileToBase64 may be in flight together
NumCalls == 2

Calls == 1..NumCalls

Mimes == {IMAGE_SVG_XML, IMAGE_SVG, IMAGE_JPEG, IMAGE_PNG, IMAGE_GIF, EMPTY}

Targets == {"original", "base64", "png", "jpeg", "webp", "svg", "gif"}

Files == [name : {"a.img"}, type : Mimes, bytes : {<<60, 115>>}]

ResizeOptions ==
  { [maxWidth |-> Undefined, maxHeight |-> Undefined, fit |-> Undefined],
    [maxWidth |-> Undefined, maxHeight |-> Some(1), fit |-> Some("contain")],
    [maxWidth |-> Some(2), maxHeight |-> Some(2), fit |-> Some("cover")] }

OptionsSet ==
  [targetFormat : Optional(Targets), quality : Optional({50}),
   resize : Optional(ResizeOptions), background : Optional({"#000000"})]

\* The host of a call: its capabilities (dom, offscreen), the outcome of each
\* platform operation the call may await, and the size of the decoded bitmap.
\* The outcome of an operation that the earlier outcomes rule out is fixed.
Envs ==
  { e \in [dom : BOOLEAN, offscreen : BOOLEAN, readOk : BOOLEAN, decodeOk : BOOLEAN,
           loadOk : BOOLEAN, imgDecodeOk : BOOLEAN, encodeOk : BOOLEAN,
           srcW : {4, 1}, srcH : {2, 3}] :
      /\ (e.srcW = 4) = (e.srcH = 2)
      /\ ~e.readOk => (e.decodeOk /\ e.encodeOk)
      /\ (e.decodeOk \/ ~e.dom) => (e.loadOk /\ e.imgDecodeOk)
      /\ ~e.loadOk => e.imgDecodeOk
      /\ (~e.decodeOk /\ ~e.dom) => e.encodeOk
      /\ (~e.loadOk \/ ~e.imgDecodeOk) => e.encodeOk }

\* the bitmap a successful decode yields on that host
BitmapOf(e) == [width |-> e.srcW, height |-> e.srcH]

\* every pairing of a file with an option record
Requests == Files \X OptionsSet

\* The requests of the calls that run together: an SVG passthrough and two
\* renders that differ in file, target, geometry and quality.
ConcRequests ==
  { <<[name |-> "a.svg", type |-> IMAGE_SVG_XML, bytes |-> <<60, 115, 118>>],
      [targetFormat |-> Undefined, quality |-> Undefined, resize |-> Undefined,
       background |-> Undefined]>>,
    <<[name |-> "b.png", type |-> IMAGE_PNG, bytes |-> <<137>>],
      [targetFormat |-> Some("jpeg"), quality |-> Some(50),
       resize |-> Some([maxWidth |-> Some(2), maxHeight |-> Some(2),
                        fit |-> Some("cover")]),
       background |-> Undefined]>>,
    <<[name |-> "c.gif", type |-> IMAGE_GIF, bytes |-> <<71, 73>>],
      [targetFormat |-> Some("webp"), quality |-> Undefined, resize |-> Undefined,
       background |-> Undefined]>> }

\* their hosts, all reading the file and decoding to 4x2 bitmaps: a window (DOM)
\* where the primary decode and the encode each succeed or fail, and a worker
\* (OffscreenCanvas only) where the primary decode fails
ConcEnvs ==
  { e \in Envs :
      /\ e.srcW = 4 /\ e.readOk
      /\ \/ e.dom /\ ~e.offscreen /\ e.loadOk /\ e.imgDecodeOk
         \/ ~e.dom /\ e.offscreen /\ ~e.decodeOk }

(***************************************************************************)
(* convertFileToBase64, one action per stretch of code between two awaits. *)
(***************************************************************************)
F(c) == file[c][1]

O(c) == options[c][1]

E(c) == env[c][1]

\* a variant with one surface at module level, reused by every call
StoreCanvasShared(c, cv) == [k \in DOMAIN canvas |-> cv]

\* the local variables of a call live in its own activation record
StoreCanvas(c, cv) == [canvas EXCEPT ![c] = cv]

\* history: another call is between its start and its end while c steps
Overlap(c) ==
  overlap' = (overlap \/ \E d \in Calls \ {c} : pc[d] \notin {"idle", "done", "failed"})

Log(c, events) == [trace EXCEPT ![c] = @ \o events]

Resolve(c, r) ==
  /\ pc' = [pc EXCEPT ![c] = "done"]
  /\ result' = [result EXCEPT ![c] = Some(r)]
  /\ error' = error

Reject(c, err) ==
  /\ pc' = [pc EXCEPT ![c] = "failed"]
  /\ error' = [error EXCEPT ![c] = Some(err)]
  /\ result' = result

\* lines 58-78: the call up to its first await, which reads the file either
\* as a data URL (both passthrough exits) or as an array buffer (render path)
Start(c, requests, envs) ==
  /\ pc[c] = "idle"
  /\ Overlap(c)
  /\ \E r \in requests, e \in envs : LET f == r[1]  o == r[2] IN
       /\ file' = [file EXCEPT ![c] = Some(f)]
       /\ options' = [options EXCEPT ![c] = Some(o)]
       /\ env' = [env EXCEPT ![c] = Some(e)]
       /\ IF IsSvgPassthrough(f, o)
          THEN pc' = [pc EXCEPT ![c] = "svgRead"] /\ trace' = Log(c, <<"readAsDataURL">>)
          ELSE IF IsRawPassthrough(f, o)
          THEN pc' = [pc EXCEPT ![c] = "rawRead"] /\ trace' = Log(c, <<"readAsDataURL">>)
          ELSE pc' = [pc EXCEPT ![c] = "bufRead"] /\ trace' = Log(c, <<"arrayBuffer">>)
  /\ UNCHANGED <<bitmap, canvas, encodeArgs, result, error, objectUrls>>
  /\ UNCHANGED <<resizeVars, estimateVars>>

\* lines 64-65 and 72-73: the data URL of the file arrives, or the reader fails
ReadDataUrlDone(c) ==
  /\ pc[c] \in {"svgRead", "rawRead"}
  /\ Overlap(c)
  /\ IF E(c).readOk THEN Resolve(c, PassthroughResult(F(c))) ELSE Reject(c, "ReadError")
  /\ UNCHANGED <<file, options, env, bitmap, canvas, encodeArgs, trace, objectUrls>>
  /\ UNCHANGED <<resizeVars, estimateVars>>

\* lines 78-81: the bytes arrive, the blob is made and the primary decode starts
ReadBufferDone(c) ==
  /\ pc[c] = "bufRead"
  /\ Overlap(c)
  /\ IF E(c).readOk
     THEN /\ pc' = [pc EXCEPT ![c] = "decode"]
          /\ trace' = Log(c, <<"createImageBitmap(blob)">>)
          /\ UNCHANGED <<result, error>>
     ELSE Reject(c, "ReadError") /\ trace' = trace
  /\ UNCHANGED <<file, options, env, bitmap, canvas, encodeArgs, objectUrls>>
  /\ UNCHANGED <<resizeVars, estimateVars>>

\* lines 100-115 with the bitmap bm in hand: up to the await of canvasToDataURL
Render(c, bm, events) ==
  LET r == RenderStep(F(c), O(c), E(c), bm)
  IN  /\ bitmap' = [bitmap EXCEPT ![c] = Some(bm)]
      /\ canvas' = StoreCanvas(c, r.canvas)
      /\ encodeArgs' = [encodeArgs EXCEPT ![c] = r.encodeArgs]
      /\ trace' = Log(c, events \o r.events)
      /\ IF r.ok
         THEN pc' = [pc EXCEPT ![c] = "encode"] /\ UNCHANGED <<result, error>>
         ELSE Reject(c, "TypeError")

\* lines 81-96: the primary decode settles. On failure the error is rethrown
\* where there is no DOM; otherwise an object URL is made and an image loads it
DecodeDone(c) ==
  /\ pc[c] = "decode"
  /\ Overlap(c)
  /\ IF E(c).decodeOk
     THEN Render(c, BitmapOf(E(c)), <<>>) /\ objectUrls' = objectUrls
     ELSE IF ~isDomAvailable(E(c))
     THEN /\ Reject(c, "DecodeError")
          /\ UNCHANGED <<bitmap, canvas, encodeArgs, trace, objectUrls>>
     ELSE /\ pc' = [pc EXCEPT ![c] = "imgLoad"]
          /\ objectUrls' = objectUrls \cup {c}
          /\ trace' = Log(c, <<"createObjectURL", "img.src">>)
          /\ UNCHANGED <<bitmap, canvas, encodeArgs, result, error>>
  /\ UNCHANGED <<file, options, env>>
  /\ UNCHANGED <<resizeVars, estimateVars>>

\* a variant whose onerror handler rejects without revoking the URL
ImgLoadDoneLeakOnError(c) ==
  /\ pc[c] = "imgLoad"
  /\ Overlap(c)
  /\ IF E(c).loadOk
     THEN /\ pc' = [pc EXCEPT ![c] = "imgDecode"]
          /\ objectUrls' = objectUrls \ {c}
          /\ trace' = Log(c, <<"onload", "createImageBitmap(img)", "revokeObjectURL">>)
          /\ UNCHANGED <<result, error>>
     ELSE /\ Reject(c, "ImageLoadError")
          /\ objectUrls' = objectUrls
          /\ trace' = Log(c, <<"onerror">>)
  /\ UNCHANGED <<file, options, env, bitmap, canvas, encodeArgs>>
  /\ UNCHANGED <<resizeVars, estimateVars>>

\* a variant whose onload handler revokes the URL before it starts the decode
ImgLoadDoneRevokeFirst(c) ==
  /\ pc[c] = "imgLoad"
  /\ Overlap(c)
  /\ objectUrls' = objectUrls \ {c}
  /\ IF E(c).loadOk
     THEN /\ pc' = [pc EXCEPT ![c] = "imgDecode"]
          /\ trace' = Log(c, <<"onload", "revokeObjectURL", "createImageBitmap(img)">>)
          /\ UNCHANGED <<result, error>>
     ELSE /\ Reject(c, "ImageLoadError")
          /\ trace' = Log(c, <<"onerror", "revokeObjectURL">>)
  /\ UNCHANGED <<file, options, env, bitmap, canvas, encodeArgs>>
  /\ UNCHANGED <<resizeVars, estimateVars>>

\* lines 88-95: img.onload starts the decode of the element and then revokes
\* the URL; img.onerror revokes the URL and rejects
ImgLoadDone(c) ==
  /\ pc[c] = "imgLoad"
  /\ Overlap(c)
  /\ objectUrls' = objectUrls \ {c}
  /\ IF E(c).loadOk
     THEN /\ pc' = [pc EXCEPT ![c] = "imgDecode"]
          /\ trace' = Log(c, <<"onload", "createImageBitmap(img)", "revokeObjectURL">>)
          /\ UNCHANGED <<result, error>>
     ELSE /\ Reject(c, "ImageLoadError")
          /\ trace' = Log(c, <<"onerror", "revokeObjectURL">>)
  /\ UNCHANGED <<file, options, env, bitmap, canvas, encodeArgs>>
  /\ UNCHANGED <<resizeVars, estimateVars>>

\* lines 86-98: the decode of the image element settles the promise
ImgDecodeDone(c) ==
  /\ pc[c] = "imgDecode"
  /\ Overlap(c)
  /\ IF E(c).imgDecodeOk
     THEN Render(c, BitmapOf(E(c)), <<"imgDecoded">>)
     ELSE /\ Reject(c, "ImageDecodeError")
          /\ UNCHANGED <<bitmap, canvas, encodeArgs, trace>>
  /\ UNCHANGED <<file, options, env, objectUrls>>
  /\ UNCHANGED <<resizeVars, estimateVars>>

\* lines 115-117: canvasToDataURL settles and the result is packaged
EncodeDone(c) ==
  /\ pc[c] = "encode"
  /\ Overlap(c)
  /\ LET dataUrl == canvasToDataURL(E(c), canvas[c][1], encodeArgs[c][1])
     IN  IF dataUrl = Undefined
         THEN Reject(c, "EncodeError")
         ELSE Resolve(c, RenderResult(F(c), canvas[c][1], dataUrl[1]))
  /\ UNCHANGED <<file, options, env, bitmap, canvas, encodeArgs, trace, objectUrls>>
  /\ UNCHANGED <<resizeVars, estimateVars>>

Step(c) ==
  \/ ReadDataUrlDone(c)
  \/ ReadBufferDone(c)
  \/ DecodeDone(c)
  \/ ImgLoadDone(c)
  \/ ImgDecodeDone(c)
  \/ EncodeDone(c)

InitCalls ==
  /\ pc = [c \in Calls |-> "idle"]
  /\ file = [c \in Calls |-> Undefined]
  /\ options = [c \in Calls |-> Undefined]
  /\ env = [c \in Calls |-> Undefined]
  /\ bitmap = [c \in Calls |-> Undefined]
  /\ canvas = [c \in Calls |-> Undefined]
  /\ encodeArgs = [c \in Calls |-> Undefined]
  /\ result = [c \in Calls |-> Undefined]
  /\ error = [c \in Calls |-> Undefined]
  /\ trace = [c \in Calls |-> <<>>]
  /\ objectUrls = {}
  /\ overlap = FALSE

InitResizeIdle == rzArgs = Undefined /\ rzOut = Undefined

InitEstimateIdle == estBytes = <<>> /\ estUrl = <<>> /\ estOut = Undefined

\* one call of convertFileToBase64, over every file, option record and host
Init == InitCalls /\ InitResizeIdle /\ InitEstimateIdle

Next == Start(1, Requests, Envs) \/ Step(1)

Spec == Init /\ [][Next]_vars

\* calls issued together and interleaved at their awaits
NextConcurrent == \E c \in Calls : Start(c, ConcRequests, ConcEnvs) \/ Step(c)

SpecConcurrent == Init /\ [][NextConcurrent]_vars

(***************************************************************************)
(* computeResize on its own: the arguments are drawn at the start and the  *)
(* one action applies the function.                                        *)
(***************************************************************************)
ResizeExamples ==
  { [srcWidth |-> 4000, srcHeight |-> 2000, maxWidth |-> Some(1000),
     maxHeight |-> Some(1000), fit |-> f] : f \in {"contain", "cover"} }

ResizeInputs ==
  [srcWidth : 1..MaxDim, srcHeight : 1..MaxDim, maxWidth : Optional(1..MaxBound),
   maxHeight : Optional(1..MaxBound), fit : {"contain", "cover"}]
    \cup ResizeExamples

Resize ==
  /\ rzArgs # Undefined /\ rzOut = Undefined
  /\ LET a == rzArgs[1]
     IN  rzOut' = Some(computeResize(a.srcWidth, a.srcHeight, a.maxWidth, a.maxHeight, a.fit))
  /\ UNCHANGED <<rzArgs, callVars, estimateVars>>

InitResize ==
  /\ InitCalls /\ InitEstimateIdle
  /\ rzArgs \in {Some(a) : a \in ResizeInputs}
  /\ rzOut = Undefined

NextResize == Resize

SpecResize == InitResize /\ [][NextResize]_vars

(***************************************************************************)
(* estimateBase64SizeBytes on its own: a byte sequence is drawn at the     *)
(* start and encoded, with or without the header of a data URL, and the    *)
(* one action applies the function to the text.                            *)
(***************************************************************************)
ByteValues == {0, 77, 255}

\* lengths whose encodings have 76 and 100 characters with 2, 1 and 0 pads
LongLengths == {55, 56, 57, 73, 74, 75}

EstimateBytes ==
  UNION {[1..n -> ByteValues] : n \in 0..MaxBytes}
    \cup {[i \in 1..n |-> 0] : n \in LongLengths}

Estimate ==
  /\ estOut = Undefined
  /\ estOut' = Some(estimateBase64SizeBytes(estUrl))
  /\ UNCHANGED <<estBytes, estUrl, callVars, resizeVars>>

InitEstimate ==
  /\ InitCalls /\ InitResizeIdle
  /\ estBytes \in EstimateBytes
  /\ estUrl \in {B64Encode(estBytes), readFileAsDataURL(IMAGE_PNG, estBytes)}
  /\ estOut = Undefined

NextEstimate == Estimate

SpecEstimate == InitEstimate /\ [][NextEstimate]_vars

(***************************************************************************)
(* What a call yields when it runs alone, from its arguments and its host: *)
(* the function convertFileToBase64 read from top to bottom.               *)
(***************************************************************************)
Done(r) == [status |-> "done", result |-> Some(r), error |-> Undefined]

Failed(err) == [status |-> "failed", result |-> Undefined, error |-> Some(err)]

RenderOutcome(f, o, e) ==
  LET r == RenderStep(f, o, e, BitmapOf(e))
  IN  IF ~r.ok THEN Failed("TypeError")
      ELSE LET dataUrl == canvasToDataURL(e, r.canvas[1], r.encodeArgs[1])
           IN  IF dataUrl = Undefined THEN Failed("EncodeError")
               ELSE Done(RenderResult(f, r.canvas[1], dataUrl[1]))

SoloOutcome(f, o, e) ==
  IF ~e.readOk THEN Failed("ReadError")
  ELSE IF IsSvgPassthrough(f, o) \/ IsRawPassthrough(f, o) THEN Done(PassthroughResult(f))
  ELSE IF e.decodeOk THEN RenderOutcome(f, o, e)
  ELSE IF ~isDomAvailable(e) THEN Failed("DecodeError")
  ELSE IF ~e.loadOk THEN Failed("ImageLoadError")
  ELSE IF ~e.imgDecodeOk THEN Failed("ImageDecodeError")
  ELSE RenderOutcome(f, o, e)

(***************************************************************************)
(* The properties.                                                         *)
(***************************************************************************)
Range(s) == {s[i] : i \in 1..Len(s)}

Started(c) == pc[c] # "idle"

\* the platform operations of the render path: decodes, surface, encoder
RenderEvents ==
  {"arrayBuffer", "createImageBitmap(blob)", "createObjectURL", "img.src", "onload",
   "onerror", "createImageBitmap(img)", "revokeObjectURL", "imgDecoded",
   "computeResize", "createCanvas", "fillRect", "drawImage", "encode"}

\* the call has left through a passthrough exit, or is on its way there: it
\* has decoded nothing, made no surface and called no encoder, a result it
\* returns carries the bytes of the file and no dimensions, and it fails only
\* where the file cannot be read
TookPassthrough(c) ==
  /\ Range(trace[c]) \cap RenderEvents = {}
  /\ bitmap[c] = Undefined /\ canvas[c] = Undefined /\ encodeArgs[c] = Undefined
  /\ pc[c] \in {"svgRead", "rawRead", "done", "failed"}
  /\ pc[c] = "done" =>
       /\ B64Decode(PayloadOf(result[c][1].dataUrl)) = F(c).bytes
       /\ DOMAIN result[c][1] = {"dataUrl", "mime", "sizeBytes", "fileName"}
  /\ pc[c] = "failed" => error[c] = Some("ReadError") /\ ~E(c).readOk

\* C1: a call whose source mime is image/svg+xml or image/svg and whose
\* targetFormat is unset, 'svg', 'base64' or 'original' returns the bytes of
\* the file as its payload, whatever resize, quality and background are, and
\* performs no decode, no surface creation and no encode.
C1_SvgPassthrough ==
  \A c \in Calls :
    ( /\ Started(c)
      /\ F(c).type \in {IMAGE_SVG_XML, IMAGE_SVG}
      /\ O(c).targetFormat \in {Undefined, Some("svg"), Some("base64"), Some("original")} )
    => TookPassthrough(c) /\ pc[c] # "rawRead"

C1_Witness ==
  \E c \in Calls :
    /\ pc[c] = "done"
    /\ F(c).type = IMAGE_SVG /\ O(c).targetFormat = Some("svg")
    /\ IsDefined(O(c).resize) /\ IsDefined(O(c).quality) /\ IsDefined(O(c).background)
    /\ B64Decode(PayloadOf(result[c][1].dataUrl)) = <<60, 115>>

\* C2 (as claimed): a call whose source mime is image/jpeg, with no
\* targetFormat and no resize option, takes the raw passthrough exit: it
\* returns the bytes of the file and no decode or encode occurs.
C2_JpegPassthrough ==
  \A c \in Calls :
    ( /\ Started(c)
      /\ F(c).type = IMAGE_JPEG
      /\ O(c).targetFormat = Undefined
      /\ O(c).resize = Undefined )
    => TookPassthrough(c)

\* the arguments and the value of the call of computeResize, once it returned
RzA == rzArgs[1]

RzR == rzOut[1]

RzMaxW == OrElse(RzA.maxWidth, RzA.srcWidth)

RzMaxH == OrElse(RzA.maxHeight, RzA.srcHeight)

\* C3: with fit 'cover' the output width and height are the effective bounds
\* (an unset bound being the source dimension) and the sampling rectangle
\* lies within the source: sx >= 0, sy >= 0, sx + sWidth <= srcWidth and
\* sy + sHeight <= srcHeight.
C3_CoverWithinSource ==
  (rzOut # Undefined /\ RzA.fit = "cover") =>
    /\ RzR.width = RzMaxW /\ RzR.height = RzMaxH
    /\ RzR.sx >= 0 /\ RzR.sy >= 0
    /\ RzR.sx + RzR.sWidth <= RzA.srcWidth
    /\ RzR.sy + RzR.sHeight <= RzA.srcHeight

C3_Witness ==
  /\ rzOut # Undefined /\ RzA.fit = "cover"
  /\ RzA.srcWidth = 5 /\ RzA.srcHeight = 3
  /\ RzA.maxWidth = Some(2) /\ RzA.maxHeight = Undefined
  /\ RzR.width = 2 /\ RzR.height = 3 /\ RzR.sx = 1 /\ RzR.sWidth = 2

\* C4 (as claimed): for both fit modes the output width and height returned
\* by computeResize are at least 1.
C4_OutputAtLeastOne == rzOut # Undefined => (RzR.width >= 1 /\ RzR.height >= 1)

\* q is the scale min(maxW / srcWidth, maxH / srcHeight, 1) as <<n, d>>
IsContainScale(q) ==
  /\ q \in {<<RzMaxW, RzA.srcWidth>>, <<RzMaxH, RzA.srcHeight>>, <<1, 1>>}
  /\ q[1] * RzA.srcWidth <= RzMaxW * q[2]
  /\ q[1] * RzA.srcHeight <= RzMaxH * q[2]
  /\ q[1] <= q[2]

\* v is x * q rounded to the nearest integer, a tie going up
IsRounded(v, x, q) ==
  /\ 2 * v * q[2] <= 2 * x * q[1] + q[2]
  /\ 2 * x * q[1] + q[2] < 2 * (v + 1) * q[2]

\* C5: with fit 'contain' the output is round(srcWidth * s) by
\* round(srcHeight * s) for the one scale s = min(maxW / srcWidth,
\* maxH / srcHeight, 1); it exceeds neither the source nor a bound that is
\* set, and the sampling rectangle is the whole source. 4000x2000 within
\* 1000x1000 gives 1000x500.
C5_ContainNeverUpscales ==
  (rzOut # Undefined /\ RzA.fit = "contain") =>
    /\ \E q \in {<<RzMaxW, RzA.srcWidth>>, <<RzMaxH, RzA.srcHeight>>, <<1, 1>>} :
         /\ IsContainScale(q)
         /\ IsRounded(RzR.width, RzA.srcWidth, q)
         /\ IsRounded(RzR.height, RzA.srcHeight, q)
    /\ RzR.width <= RzA.srcWidth /\ RzR.height <= RzA.srcHeight
    /\ IsDefined(RzA.maxWidth) => RzR.width <= RzA.maxWidth[1]
    /\ IsDefined(RzA.maxHeight) => RzR.height <= RzA.maxHeight[1]
    /\ RzR.sx = 0 /\ RzR.sy = 0
    /\ RzR.sWidth = RzA.srcWidth /\ RzR.sHeight = RzA.srcHeight
    /\ (RzA.srcWidth = 4000 /\ RzA.srcHeight = 2000) => (RzR.width = 1000 /\ RzR.height = 500)

C5_Witness ==
  /\ rzOut # Undefined /\ RzA.fit = "contain"
  /\ RzA.srcWidth = 4000 /\ RzA.srcHeight = 2000
  /\ RzA.maxWidth = Some(1000) /\ RzA.maxHeight = Some(1000)
  /\ RzR = [width |-> 1000, height |-> 500, sx |-> 0, sy |-> 0,
            sWidth |-> 4000, sHeight |-> 2000]

\* the payload that stands for estBytes, and the number of '=' it ends in
EstPayload == B64Encode(estBytes)

TrailingPads(p) ==
  IF Len(p) >= 2 /\ p[Len(p)] = "=" /\ p[Len(p) - 1] = "=" THEN 2
  ELSE IF Len(p) >= 1 /\ p[Len(p)] = "=" THEN 1 ELSE 0

\* the text is the padded encoding of n bytes: 4 * ceil(n / 3) characters of
\* the alphabet, the last 0, 1 or 2 of them '=', after an optional header
\* that ends at the first ','
WellFormed(url, n) ==
  LET p == IF IndexOf(url, ",") >= 0 THEN PayloadOf(url) ELSE url
  IN  /\ Len(p) = 4 * ((n + 2) \div 3)
      /\ TrailingPads(p) = (3 - (n % 3)) % 3
      /\ \A i \in 1..(Len(p) - TrailingPads(p)) : \E k \in 1..64 : B64Alphabet[k] = p[i]
      /\ B64Decode(p) = estBytes

\* C6: applied to the padded base64 encoding of n bytes, with or without a
\* header ending at the first ',', estimateBase64SizeBytes returns n.
C6_EstimateExact ==
  estOut # Undefined => (WellFormed(estUrl, Len(estBytes)) /\ estOut[1] = Len(estBytes))

C6_Witness ==
  /\ estOut = Some(4) /\ Len(estBytes) = 4
  /\ IndexOf(estUrl, ",") >= 0
  /\ TrailingPads(EstPayload) = 2

\* C7 (as claimed): 75 for a 100-character payload without padding, 74 for a
\* payload of 76 characters with one trailing pad, floor(n * 3 / 4) - 2 for
\* an n-character payload with two trailing pads.
C7_AsClaimed ==
  estOut # Undefined =>
    LET n == Len(EstPayload)
        pads == TrailingPads(EstPayload)
    IN  /\ (n = 100 /\ pads = 0) => estOut[1] = 75
        /\ (n = 76 /\ pads = 1) => estOut[1] = 74
        /\ pads = 2 => estOut[1] = ((n * 3) \div 4) - 2

\* C7 (amended): 75 for a 100-character payload without padding, 56 for a
\* payload of 76 characters with one trailing pad, floor(n * 3 / 4) - 2 for
\* an n-character payload with two trailing pads.
C7_PaddingCases ==
  estOut # Undefined =>
    LET n == Len(EstPayload)
        pads == TrailingPads(EstPayload)
    IN  /\ (n = 100 /\ pads = 0) => estOut[1] = 75
        /\ (n = 76 /\ pads = 1) => estOut[1] = 56
        /\ pads = 2 => estOut[1] = ((n * 3) \div 4) - 2

C7_Witness ==
  /\ estOut = Some(56)
  /\ Len(EstPayload) = 76 /\ TrailingPads(EstPayload) = 1
  /\ IndexOf(estUrl, ",") >= 0

\* C8: on the render path the encoder is called with a media type among
\* image/png, image/jpeg and image/webp: the resolved target mime where that
\* is image/jpeg or image/webp and image/png for every other one; and with
\* the quality options.quality where that is a number and 0.92 otherwise.
C8_EncoderArguments ==
  \A c \in Calls :
    encodeArgs[c] # Undefined =>
      LET resolved == TargetMimeRequested(F(c), O(c))
          a == encodeArgs[c][1]
      IN  /\ a.type \in {IMAGE_PNG, IMAGE_JPEG, IMAGE_WEBP}
          /\ a.type = (IF resolved \in {IMAGE_JPEG, IMAGE_WEBP} THEN resolved ELSE IMAGE_PNG)
          /\ a.quality = (IF O(c).quality = Undefined THEN 92 ELSE O(c).quality[1])
          /\ "encode" \in Range(trace[c])

C8_Witness ==
  \E c \in Calls :
    /\ pc[c] = "done"
    /\ TargetMimeRequested(F(c), O(c)) = IMAGE_GIF
    /\ O(c).quality = Undefined
    /\ encodeArgs[c] = Some([type |-> IMAGE_PNG, quality |-> 92])
    /\ result[c][1].mime = IMAGE_PNG

\* C9: calls issued together and interleaved at their awaits in any order
\* each end with the result, or the error, of the same call run alone.
C9_NoInterference ==
  \A c \in Calls :
    /\ pc[c] = "done" =>
         /\ SoloOutcome(F(c), O(c), E(c)).status = "done"
         /\ result[c] = SoloOutcome(F(c), O(c), E(c)).result
         /\ error[c] = Undefined
    /\ pc[c] = "failed" =>
         /\ SoloOutcome(F(c), O(c), E(c)).status = "failed"
         /\ error[c] = SoloOutcome(F(c), O(c), E(c)).error
         /\ result[c] = Undefined

C9_Witness ==
  /\ overlap
  /\ pc[1] = "done" /\ pc[2] = "done"
  /\ "width" \in DOMAIN result[1][1] /\ "width" \in DOMAIN result[2][1]
  /\ result[1][1].dataUrl # result[2][1].dataUrl
  /\ "revokeObjectURL" \in Range(trace[1])

\* the primary decode of call c has failed on a host without a DOM
PrimaryDecodeFailedNoDom(c) ==
  /\ "createImageBitmap(blob)" \in Range(trace[c])
  /\ pc[c] # "decode"
  /\ ~E(c).decodeOk
  /\ ~E(c).dom

\* C10: when the primary decode fails and there is no DOM, the call fails
\* with the error of the primary decode: no fallback decode is attempted, no
\* object URL and no surface is created, nothing is encoded and no result is
\* returned.
C10_DecodeErrorPropagates ==
  \A c \in Calls :
    PrimaryDecodeFailedNoDom(c) =>
      /\ pc[c] = "failed"
      /\ error[c] = Some("DecodeError")
      /\ trace[c] = <<"arrayBuffer", "createImageBitmap(blob)">>
      /\ c \notin objectUrls
      /\ bitmap[c] = Undefined /\ canvas[c] = Undefined /\ encodeArgs[c] = Undefined
      /\ result[c] = Undefined

C10_Witness ==
  \E c \in Calls :
    /\ PrimaryDecodeFailedNoDom(c)
    /\ E(c).offscreen
    /\ pc[c] = "failed" /\ error[c] = Some("DecodeError")

\* C11: a call whose source is not SVG, has a mime that starts with 'image/'
\* and is not image/jpeg, whose targetFormat is unset, 'original' or 'base64'
\* and which has no resize option returns the bytes of the file as its
\* payload, with no decode, no surface creation and no encode.
C11_RawPassthrough ==
  \A c \in Calls :
    ( /\ Started(c)
      /\ F(c).type \notin {IMAGE_SVG_XML, IMAGE_SVG, IMAGE_JPEG}
      /\ Len(F(c).type) >= 6 /\ SubSeq(F(c).type, 1, 6) = <<"i", "m", "a", "g", "e", "/">>
      /\ O(c).targetFormat \in {Undefined, Some("original"), Some("base64")}
      /\ O(c).resize = Undefined )
    => TookPassthrough(c) /\ pc[c] # "svgRead"

C11_Witness ==
  \E c \in Calls :
    /\ pc[c] = "done"
    /\ F(c).type = IMAGE_GIF /\ O(c).targetFormat = Some("base64")
    /\ O(c).resize = Undefined /\ IsDefined(O(c).quality) /\ IsDefined(O(c).background)
    /\ B64Decode(PayloadOf(result[c][1].dataUrl)) = <<60, 115>>
    /\ result[c][1].mime = IMAGE_GIF

\* how many times the event occurs in the trace
Count(t, event) == Cardinality({i \in 1..Len(t) : t[i] = event})

\* the step in which call c completes with a result
Completes(c) == pc[c] # "done" /\ pc'[c] = "done"

\* C12: a call that completes with a result leaves through exactly one of
\* the SVG passthrough, the raw passthrough and the full render, having
\* called the encoder at most once; its result carries width and height if
\* and only if it left through the full render, and they are then the
\* computed output dimensions; on all three exits fileName is the name of
\* the file.
C12_ThreeExits ==
  [][ \A c \in Calls :
        Completes(c) =>
          LET r == result'[c][1]
              rendered == pc[c] = "encode"
          IN  /\ pc[c] \in {"svgRead", "rawRead", "encode"}
              /\ pc[c] = "svgRead" <=> IsSvgPassthrough(F(c), O(c))
              /\ Count(trace'[c], "encode") = (IF rendered THEN 1 ELSE 0)
              /\ rendered <=> "width" \in DOMAIN r
              /\ rendered <=> "height" \in DOMAIN r
              /\ rendered =>
                   LET g == computeResize(bitmap[c][1].width, bitmap[c][1].height,
                                          MaxWidthOf(O(c)), MaxHeightOf(O(c)), FitOf(O(c)))
                   IN  r.width = g.width /\ r.height = g.height
              /\ r.fileName = F(c).name ]_vars

C12_Witness ==
  \E c \in Calls :
    /\ pc[c] = "done"
    /\ Count(trace[c], "encode") = 1
    /\ "imgDecoded" \in Range(trace[c])
    /\ E(c).srcW = 4 /\ O(c).resize = Some([maxWidth |-> Undefined, maxHeight |-> Some(1),
                                           fit |-> Some("contain")])
    /\ result[c][1].width = 2 /\ result[c][1].height = 1
    /\ result[c][1].fileName = "a.img"

\* C13: an object URL made by the decode fallback is revoked exactly once on
\* every way out of the fallback, after the image loaded and after it failed
\* to load alike; no call completes or fails with its URL still alive.
C13_UrlReleasedOnce ==
  \A c \in Calls :
    /\ Count(trace[c], "createObjectURL") <= 1
    /\ c \in objectUrls <=> pc[c] = "imgLoad"
    /\ pc[c] = "imgLoad" =>
         Count(trace[c], "createObjectURL") = 1 /\ Count(trace[c], "revokeObjectURL") = 0
    /\ pc[c] # "imgLoad" =>
         Count(trace[c], "revokeObjectURL") = Count(trace[c], "createObjectURL")
    /\ "onload" \in Range(trace[c]) \/ "onerror" \in Range(trace[c]) =>
         Count(trace[c], "revokeObjectURL") = 1
    /\ pc[c] \in {"done", "failed"} => c \notin objectUrls

C13_Witness ==
  \E c \in Calls :
    /\ pc[c] = "failed" /\ error[c] = Some("ImageLoadError")
    /\ trace[c] = <<"arrayBuffer", "createImageBitmap(blob)", "createObjectURL", "img.src",
                    "onerror", "revokeObjectURL">>
    /\ objectUrls = {}

\* the place of the first occurrence of the event in the trace, 0 when absent
Position(t, event) ==
  IF event \in Range(t) THEN CHOOSE i \in 1..Len(t) : t[i] = event /\ \A j \in 1..(i - 1) : t[j] # event
  ELSE 0

\* C14 (as claimed): on the success path of the fallback the image loads,
\* the decode from the image element completes, and only then is the object
\* URL revoked: the URL is never revoked while that decode is in flight.
C14_AsClaimed ==
  \A c \in Calls :
    /\ pc[c] = "imgDecode" => c \in objectUrls
    /\ ("onload" \in Range(trace[c]) /\ "revokeObjectURL" \in Range(trace[c])) =>
         /\ "imgDecoded" \in Range(trace[c])
         /\ Position(trace[c], "onload") < Position(trace[c], "imgDecoded")
         /\ Position(trace[c], "imgDecoded") < Position(trace[c], "revokeObjectURL")

\* C14 (amended): on the success path of the fallback the image loads, the
\* decode from the image element is started, the object URL is revoked, and
\* the decode completes afterwards: the URL is alive until the image has
\* loaded and the decode has been started, and is revoked while that decode
\* is in flight.
C14_ReleaseAfterDecodeStarted ==
  \A c \in Calls :
    /\ pc[c] = "imgLoad" => c \in objectUrls
    /\ pc[c] = "imgDecode" => c \notin objectUrls
    /\ "onload" \in Range(trace[c]) =>
         /\ Position(trace[c], "onload") < Position(trace[c], "createImageBitmap(img)")
         /\ Position(trace[c], "createImageBitmap(img)")
              < Position(trace[c], "revokeObjectURL")
         /\ "imgDecoded" \in Range(trace[c]) =>
              Position(trace[c], "revokeObjectURL") < Position(trace[c], "imgDecoded")
         /\ pc[c] = "imgDecode" <=> "imgDecoded" \notin Range(trace[c]) /\ pc[c] # "failed"

C14_Witness ==
  \E c \in Calls :
    /\ pc[c] = "done"
    /\ Len(trace[c]) >= 8
    /\ SubSeq(trace[c], 3, 8) = <<"createObjectURL", "img.src", "onload",
                                  "createImageBitmap(img)", "revokeObjectURL", "imgDecoded">>

\* the render stretch of a trace: everything from the geometry on
RenderStretch(t) ==
  IF "computeResize" \in Range(t) THEN SubSeq(t, Position(t, "computeResize"), Len(t)) ELSE <<>>

\* C15: on the render path the steps come in the order decode, geometry,
\* surface creation, optional background fill, draw, encode; the whole
\* surface is filled if and only if the clamped encode mime is image/jpeg,
\* with options.background where given and '#ffffff' otherwise, and the fill
\* precedes the draw.
C15_RenderOrder ==
  \A c \in Calls :
    encodeArgs[c] # Undefined =>
      LET t == trace[c]
          jpeg == encodeArgs[c][1].type = <<"i", "m", "a", "g", "e", "/", "j", "p", "e", "g">>
          decoded == IF "imgDecoded" \in Range(t) THEN Position(t, "imgDecoded")
                     ELSE Position(t, "createImageBitmap(blob)")
      IN  /\ bitmap[c] # Undefined
          /\ 0 < decoded /\ decoded < Position(t, "computeResize")
          /\ RenderStretch(t) =
               (IF jpeg THEN <<"computeResize", "createCanvas", "fillRect", "drawImage", "encode">>
                        ELSE <<"computeResize", "createCanvas", "drawImage", "encode">>)
          /\ canvas[c][1].fill =
               (IF ~jpeg THEN Undefined
                ELSE IF O(c).background = Undefined THEN Some("#ffffff")
                ELSE O(c).background)
          /\ canvas[c][1].width = GeometryOf(O(c), bitmap[c][1]).width
          /\ canvas[c][1].height = GeometryOf(O(c), bitmap[c][1]).height
          /\ canvas[c][1].drawn # Undefined

C15_Witness ==
  \E c \in Calls :
    /\ pc[c] = "done"
    /\ F(c).type = IMAGE_PNG /\ O(c).targetFormat = Some("jpeg")
    /\ O(c).background = Undefined
    /\ trace[c] = <<"arrayBuffer", "createImageBitmap(blob)", "computeResize", "createCanvas",
                    "fillRect", "drawImage", "encode">>
    /\ canvas[c][1].fill = Some("#ffffff")

\* v is a / b rounded to the nearest integer, a tie going up (a >= 0, b > 0)
IsNearest(v, a, b) == 2 * v * b <= 2 * a + b /\ 2 * a + b < 2 * (v + 1) * b

\* v is floor(a / 2)
IsHalfFloor(v, a) == 2 * v <= a /\ a < 2 * v + 2

\* C16: with fit 'cover' the sampling rectangle is the centered crop for
\* targetAspect = effW / effH: where srcWidth / srcHeight > targetAspect,
\* sWidth = round(srcHeight * targetAspect) and sHeight = srcHeight;
\* otherwise sWidth = srcWidth and sHeight = round(srcWidth / targetAspect);
\* sx = floor((srcWidth - sWidth) / 2) and sy = floor((srcHeight - sHeight) / 2).
\* 4000x2000 within 1000x1000 gives sWidth = 2000, sx = 1000, sy = 0.
C16_CoverCenteredCrop ==
  (rzOut # Undefined /\ RzA.fit = "cover") =>
    /\ IF RzA.srcWidth * RzMaxH > RzMaxW * RzA.srcHeight
       THEN /\ IsNearest(RzR.sWidth, RzA.srcHeight * RzMaxW, RzMaxH)
            /\ RzR.sHeight = RzA.srcHeight
       ELSE /\ RzR.sWidth = RzA.srcWidth
            /\ IsNearest(RzR.sHeight, RzA.srcWidth * RzMaxH, RzMaxW)
    /\ IsHalfFloor(RzR.sx, RzA.srcWidth - RzR.sWidth)
    /\ IsHalfFloor(RzR.sy, RzA.srcHeight - RzR.sHeight)
    /\ (RzA.srcWidth = 4000 /\ RzA.srcHeight = 2000) =>
         (RzR.sWidth = 2000 /\ RzR.sx = 1000 /\ RzR.sy = 0)

C16_Witness ==
  /\ rzOut # Undefined /\ RzA.fit = "cover"
  /\ RzA.srcWidth = 4000 /\ RzA.srcHeight = 2000
  /\ RzA.maxWidth = Some(1000) /\ RzA.maxHeight = Some(1000)
  /\ RzR = [width |-> 1000, height |-> 1000, sx |-> 1000, sy |-> 0,
            sWidth |-> 2000, sHeight |-> 2000]

====
